---- MODULE Spec2Model ----
(***************************************************************************)
(* SmartFire: the consumer-side alert pipeline of SmartFireApp             *)
(* (src/components/map-imports.ts): the ESP32 poller, the fingerprint and  *)
(* proximity deduplication, the alert store and the notification requests. *)
(*                                                                         *)
(* Coordinates are integers in micro-degrees (the wire format carries six  *)
(* decimal places), so the tolerance 0.0001 degrees is 100.                *)
(* A React render closes over the state of that render: the callback that  *)
(* setInterval holds keeps the esp32IpAddress and the lastAlertHash of the *)
(* render whose effect called startPolling.                                *)
(***************************************************************************)
EXTENDS Integers, Sequences, FiniteSets, Bags, TLC

VARIABLES
    alerts,              \* useState<FireAlert[]>: the alert store, head first
    esp32IpAddress,      \* useState<string>: the producer address
    isPolling,           \* useState<boolean>
    lastAlertHash,       \* useState<string>: the stored last fingerprint
    pollingIntervalRef,  \* useRef: handle of the interval timer, or Null
    timers,              \* interval timers scheduled in the runtime
    inflight,            \* poll cycles whose fetch has not yet settled
    saves,               \* number of address operations (load, save) settled
    now,                 \* the clock read by Date.now() and new Date()
    pc,                  \* position of the [esp32IpAddress] effect
    escaped,             \* an exception left pollESP32Endpoint
    lastOp,              \* the last operation that ran to its end, with the
                         \* requests it handed to scheduleNotificationAsync
    producer             \* the ESP32: the sensor value and the GPS fix it read
                         \* last, and the response it sent

vars == <<alerts, esp32IpAddress, isPolling, lastAlertHash, pollingIntervalRef,
          timers, inflight, saves, now, pc,
          escaped, lastOp, producer>>

----------------------------------------------------------------------------
\* Bounds of the model

MaxAlerts == 2
MaxInFlight == 2
MaxClock == 1
MaxSaves == 1

----------------------------------------------------------------------------
\* Program constants and input domains

ProximityTolerance == 100

PlatformOS == "android"

DefaultIp == "192.168.1.100"
OtherIp == "192.168.1.101"
EmptyIp == ""
InputIps == {DefaultIp, OtherIp, EmptyIp}

Null == 0
EmptyHash == <<>>

FallbackLat == 16615000
FallbackLng == 120316000

BasePosition == [lat |-> FallbackLat, lng |-> FallbackLng]

\* within tolerance of the fallback position in both axes
NearPosition == [lat |-> FallbackLat + 50, lng |-> FallbackLng + 50]

\* beyond tolerance of both in latitude, within it in longitude
FarPosition == [lat |-> FallbackLat + 200, lng |-> FallbackLng + 50]

\* "YYYY-MM-DD HH:MM" as its five numeric fields
Time1 == <<2026, 1, 22, 21, 35>>

\* a parsed JSON body: numeric = FALSE stands for a body whose latitude and
\* longitude are missing
Body(severity, time, position) ==
    [severity |-> severity, time |-> time, latitude |-> position.lat,
     longitude |-> position.lng, numeric |-> TRUE]

\* the bodies the producer answers with: a strong flame at the fallback
\* position, an extreme one next to it, a strong one further away, no flame
WellFormed ==
    { Body("HIGH", Time1, BasePosition), Body("EXTREME", Time1, NearPosition),
      Body("HIGH", Time1, FarPosition), Body("NONE", Time1, BasePosition) }

NoCoords ==
    {[severity |-> "HIGH", time |-> Time1, latitude |-> 0, longitude |-> 0,
      numeric |-> FALSE]}

NoData == [severity |-> "", time |-> <<>>, latitude |-> 0, longitude |-> 0,
           numeric |-> FALSE]

FailureKinds == {"timeout", "refused", "http500", "badjson"}

Failures == [kind : FailureKinds, data : {NoData}]

\* what a fetch can settle with
Responses == Failures \cup [kind : {"ok"}, data : WellFormed]

\* the same, with bodies that lack the coordinates
ResponsesMalformed == Responses \cup [kind : {"ok"}, data : NoCoords]


----------------------------------------------------------------------------
\* Pure functions of the consumer

\* data.severity && data.severity !== 'NONE'
IsFireTreatsNoneAsFire(data) == data.severity # ""

IsFire(data) == data.severity # "" /\ data.severity # "NONE"

\* a number interpolated into a template string; a missing field prints as
\* "undefined", modelled by the empty tuple
NumberText(isNumber, x) == IF isNumber THEN <<x>> ELSE <<>>

\* `${data.severity}-${data.latitude}-${data.longitude}-${data.time}`
Fingerprint(data) ==
    <<data.severity, NumberText(data.numeric, data.latitude),
      NumberText(data.numeric, data.longitude), data.time>>

\* String.prototype.toLowerCase on the severities of the wire format
ToLowerCase(s) ==
    CASE s = "EXTREME"  -> "extreme"
      [] s = "HIGH"     -> "high"
      [] s = "MODERATE" -> "moderate"
      [] s = "LOW"      -> "low"
      [] s = "NONE"     -> "none"
      [] s = "CRITICAL" -> "critical"
      [] s = "CONSTRUCTOR" -> "constructor"
      [] OTHER          -> s

\* Number.prototype.toFixed(4) of a non-negative coordinate: micro-degrees
\* rounded to units of 0.0001 degree
ToFixed4(x) == (x + 50) \div 100

\* Number(text) of a field that is not a numeral: a value that no numeral of
\* a time string and no month index denotes
NaN == 0 - 999999

\* month - 1
MonthIndex(month) == IF month = NaN THEN NaN ELSE month - 1

\* the time strings with a defect: fields out of range ("2026-99-99 99:99"),
\* a field that is not a numeral ("2026-xx-22 21:35"), no time part
\* ("2026-01-22")
TimeOutOfRange == <<2026, 99, 99, 99, 99>>
TimeNotNumeric == <<2026, NaN, 22, 21, 35>>
TimeNoTimePart == <<2026, 1, 22>>

\* new Date(): the clock reading
CurrentDate(clock) == [clock |-> clock]

IsLeapYear(y) == (y % 4 = 0 /\ y % 100 # 0) \/ y % 400 = 0

DaysInMonth(y, monthIndex) ==
    IF monthIndex = 1 THEN (IF IsLeapYear(y) THEN 29 ELSE 28)
    ELSE IF monthIndex \in {3, 5, 8, 10} THEN 30 ELSE 31

\* the Date of a year, a month index in 0..11 and a day that may lie outside
\* the month: the day is carried into the months after or before
RECURSIVE MakeDay(_, _, _)
MakeDay(y, monthIndex, d) ==
    IF d > DaysInMonth(y, monthIndex)
    THEN MakeDay(IF monthIndex = 11 THEN y + 1 ELSE y, (monthIndex + 1) % 12,
                 d - DaysInMonth(y, monthIndex))
    ELSE IF d < 1
    THEN LET py == IF monthIndex = 0 THEN y - 1 ELSE y
             pm == (monthIndex + 11) % 12
         IN  MakeDay(py, pm, d + DaysInMonth(py, pm))
    ELSE [year |-> y, monthIndex |-> monthIndex, day |-> d]

\* new Date(year, monthIndex, day, hours, minutes): a NaN argument gives the
\* Invalid Date, a year in 0..99 is taken as 1900 + year, and fields outside
\* their range are carried over
NewDate(year, monthIndex, day, hours, minutes) ==
    IF NaN \in {year, monthIndex, day, hours, minutes}
    THEN [invalid |-> TRUE]
    ELSE LET fullYear == IF year \in 0..99 THEN 1900 + year ELSE year
             h == hours + (minutes \div 60)
             date == MakeDay(fullYear + (monthIndex \div 12), monthIndex % 12,
                             day + (h \div 24))
         IN  [year |-> date.year, monthIndex |-> date.monthIndex,
              day |-> date.day, hours |-> h % 24, minutes |-> minutes % 60,
              seconds |-> 0]

\* parseESP32Timestamp: timePart.split throws when the time part is missing,
\* and the catch returns new Date(); nothing else in the try block throws
ParseESP32TimestampMonthKept(timestamp, clock) ==
    IF Len(timestamp) < 4
    THEN CurrentDate(clock)
    ELSE NewDate(timestamp[1], timestamp[2], timestamp[3], timestamp[4],
                 IF Len(timestamp) < 5 THEN NaN ELSE timestamp[5])

ParseESP32Timestamp(timestamp, clock) ==
    IF Len(timestamp) < 4
    THEN CurrentDate(clock)
    ELSE NewDate(timestamp[1], MonthIndex(timestamp[2]), timestamp[3],
                 timestamp[4],
                 IF Len(timestamp) < 5 THEN NaN ELSE timestamp[5])

Abs(x) == IF x < 0 THEN 0 - x ELSE x

\* prevAlerts.some(alert => |dlat| < 0.0001 && |dlng| < 0.0001 && active)
ExistsSameSeverity(prevAlerts, newAlert) ==
    \E i \in 1..Len(prevAlerts) :
        /\ Abs(prevAlerts[i].coordinates.lat - newAlert.coordinates.lat) < ProximityTolerance
        /\ Abs(prevAlerts[i].coordinates.lng - newAlert.coordinates.lng) < ProximityTolerance
        /\ prevAlerts[i].severity = newAlert.severity
        /\ prevAlerts[i].status = "active"

ExistsEitherAxis(prevAlerts, newAlert) ==
    \E i \in 1..Len(prevAlerts) :
        /\ \/ Abs(prevAlerts[i].coordinates.lat - newAlert.coordinates.lat) < ProximityTolerance
           \/ Abs(prevAlerts[i].coordinates.lng - newAlert.coordinates.lng) < ProximityTolerance
        /\ prevAlerts[i].status = "active"

Exists(prevAlerts, newAlert) ==
    \E i \in 1..Len(prevAlerts) :
        /\ Abs(prevAlerts[i].coordinates.lat - newAlert.coordinates.lat) < ProximityTolerance
        /\ Abs(prevAlerts[i].coordinates.lng - newAlert.coordinates.lng) < ProximityTolerance
        /\ prevAlerts[i].status = "active"

PollAlertResolved(data, clock) ==
    [id |-> clock,
     severity |-> ToLowerCase(data.severity),
     location |-> <<"GPS", ToFixed4(data.latitude), ToFixed4(data.longitude)>>,
     coordinates |-> [lat |-> data.latitude, lng |-> data.longitude],
     time |-> ParseESP32Timestamp(data.time, clock),
     status |-> "resolved"]

\* the newAlert object of pollESP32Endpoint
PollAlert(data, clock) ==
    [id |-> clock,
     severity |-> ToLowerCase(data.severity),
     location |-> <<"GPS", ToFixed4(data.latitude), ToFixed4(data.longitude)>>,
     coordinates |-> [lat |-> data.latitude, lng |-> data.longitude],
     time |-> ParseESP32Timestamp(data.time, clock),
     status |-> "active"]

\* the property names an object literal inherits from Object.prototype that
\* a lower-cased string can spell
InheritedProperties == {"constructor", "__proto__"}

\* severityConfig[alert.severity] || severityConfig.low: the lookup finds the
\* four own properties and the inherited ones, whose values are truthy and
\* have no title, body, sound or priority
SeverityConfig(alert) ==
    CASE alert.severity = "moderate" ->
            [title |-> "Fire Alert - MODERATE",
             body |-> <<"Moderate flame detected at", alert.location>>,
             sound |-> TRUE, priority |-> "HIGH"]
      [] alert.severity = "high" ->
            [title |-> "Fire Alert - HIGH",
             body |-> <<"Strong flame detected at", alert.location>>,
             sound |-> TRUE, priority |-> "HIGH"]
      [] alert.severity = "extreme" ->
            [title |-> "EMERGENCY - EXTREME FIRE ALERT",
             body |-> <<"CRITICAL: Extreme flame detected at", alert.location>>,
             sound |-> TRUE, priority |-> "MAX"]
      [] alert.severity \in InheritedProperties ->
            [inherited |-> alert.severity]
      [] OTHER ->
            [title |-> "Fire Alert - LOW",
             body |-> <<"Weak flame detected at", alert.location>>,
             sound |-> TRUE, priority |-> "DEFAULT"]

\* the request triggerFireAlertNotification passes to scheduleNotificationAsync:
\* title, body and sound of config, as far as config has them, and data
NotificationRequest(alert) ==
    LET config == SeverityConfig(alert)
        data == [alertId |-> alert.id, severity |-> alert.severity,
                 coordinates |-> alert.coordinates]
    IN  IF "title" \in DOMAIN config
        THEN [title |-> config.title, body |-> config.body,
              sound |-> config.sound, data |-> data]
        ELSE [data |-> data]

\* catch (error) { } of pollESP32Endpoint: nothing thrown inside the try
\* block leaves the function
EscapesPollRethrow(thrown) == thrown

EscapesPoll(thrown) == FALSE

----------------------------------------------------------------------------
\* pollESP32Endpoint, in its two halves around `await fetch`

\* a poll cycle in flight keeps the closure of the render that created the
\* callback: the address it fetches from and the lastAlertHash it compares with
\* and it has the time since its fetch was issued, in milliseconds
Fetch(ip, hash) == [ip |-> ip, hash |-> hash, age |-> 0]

\* up to the fetch: nothing is issued without an address or on web
PollIssue(pending, ip, hash) ==
    IF ip = EmptyIp \/ PlatformOS = "web"
    THEN pending
    ELSE pending (+) SetToBag({Fetch(ip, hash)})

\* setInterval(pollESP32Endpoint, 1000)
PollIntervalMs == 1000

\* AbortSignal.timeout(2000)
FetchTimeoutMs == 2000

\* the abort signal of the cycle f fires before `elapsed` more milliseconds
\* have passed
ExpiredNever(f, elapsed) == FALSE

Expired(f, elapsed) == f.age + elapsed > FetchTimeoutMs

\* the cycles in flight, `elapsed` milliseconds later
Aged(pending, elapsed) ==
    BagOfAll(LAMBDA f : [f EXCEPT !.age = @ + elapsed], pending)

\* every scheduled interval timer fires once
RECURSIVE FireAll(_, _)
FireAll(pending, ts) ==
    IF ts = {} THEN pending
    ELSE LET t == CHOOSE x \in ts : TRUE
         IN  FireAll(PollIssue(pending, t.ip, t.hash), ts \ {t})

Outcome(as, h, notes, created, thrown) ==
    [alerts |-> as, hash |-> h, notes |-> notes, created |-> created,
     thrown |-> thrown]

\* the updater passed to setAlerts: the store it returns, the requests it
\* hands to triggerFireAlertNotification, and whether it inserted
UpdaterNotifiesContinuation(prevAlerts, newAlert) ==
    IF Exists(prevAlerts, newAlert)
    THEN [alerts |-> prevAlerts, notes |-> <<NotificationRequest(newAlert)>>,
          created |-> FALSE]
    ELSE [alerts |-> <<newAlert>> \o prevAlerts,
          notes |-> <<NotificationRequest(newAlert)>>, created |-> TRUE]

UpdaterReplacesStore(prevAlerts, newAlert) ==
    IF Exists(prevAlerts, newAlert)
    THEN [alerts |-> prevAlerts, notes |-> <<>>, created |-> FALSE]
    ELSE [alerts |-> <<newAlert>>,
          notes |-> <<NotificationRequest(newAlert)>>, created |-> TRUE]

UpdaterAppends(prevAlerts, newAlert) ==
    IF Exists(prevAlerts, newAlert)
    THEN [alerts |-> prevAlerts, notes |-> <<>>, created |-> FALSE]
    ELSE [alerts |-> prevAlerts \o <<newAlert>>,
          notes |-> <<NotificationRequest(newAlert)>>, created |-> TRUE]

\* the store with the alerts that newAlert continues changed by change
Matched(prevAlerts, newAlert, change(_)) ==
    [i \in 1..Len(prevAlerts) |->
        IF Exists(<<prevAlerts[i]>>, newAlert) THEN change(prevAlerts[i])
        ELSE prevAlerts[i]]

UpdaterUpdatesMatched(prevAlerts, newAlert) ==
    IF Exists(prevAlerts, newAlert)
    THEN LET Refresh(a) == [a EXCEPT !.severity = newAlert.severity,
                                     !.time = newAlert.time]
         IN  [alerts |-> Matched(prevAlerts, newAlert, Refresh),
              notes |-> <<>>, created |-> FALSE]
    ELSE [alerts |-> <<newAlert>> \o prevAlerts,
          notes |-> <<NotificationRequest(newAlert)>>, created |-> TRUE]

UpdaterResolvesMatched(prevAlerts, newAlert) ==
    IF Exists(prevAlerts, newAlert)
    THEN LET Resolve(a) == [a EXCEPT !.status = "resolved"]
         IN  [alerts |-> Matched(prevAlerts, newAlert, Resolve),
              notes |-> <<>>, created |-> FALSE]
    ELSE [alerts |-> <<newAlert>> \o prevAlerts,
          notes |-> <<NotificationRequest(newAlert)>>, created |-> TRUE]

Updater(prevAlerts, newAlert) ==
    IF Exists(prevAlerts, newAlert)
    THEN [alerts |-> prevAlerts, notes |-> <<>>, created |-> FALSE]
    ELSE [alerts |-> <<newAlert>> \o prevAlerts,
          notes |-> <<NotificationRequest(newAlert)>>, created |-> TRUE]

\* from the settled fetch to the end of the function, for the cycle f, the
\* response resp, the store prevAlerts, the stored fingerprint prevHash and
\* the clock reading
PollProcess(f, resp, prevAlerts, prevHash, clock) ==
    IF resp.kind # "ok"
    THEN \* fetch rejected, !response.ok, or response.json() rejected
         Outcome(prevAlerts, prevHash, <<>>, FALSE, TRUE)
    ELSE LET data == resp.data
             alertHash == Fingerprint(data)
             newAlert == PollAlert(data, clock)
         IN  IF ~IsFire(data)
             THEN Outcome(prevAlerts, prevHash, <<>>, FALSE, FALSE)
             ELSE IF alertHash = f.hash
             THEN Outcome(prevAlerts, prevHash, <<>>, FALSE, FALSE)
             ELSE IF ~data.numeric
             THEN \* setLastAlertHash ran; data.latitude.toFixed throws
                  Outcome(prevAlerts, alertHash, <<>>, FALSE, TRUE)
             ELSE LET updated == Updater(prevAlerts, newAlert)
                  IN  Outcome(updated.alerts, alertHash, updated.notes,
                              updated.created, FALSE)

----------------------------------------------------------------------------
\* Interval timers

TimerIds(ts) == {t.id : t \in ts}

\* the handle setInterval returns: one that no timer known to the runtime has
FreshTimerId(ts) == CHOOSE n \in 1..(Cardinality(ts) + 1) : n \notin TimerIds(ts)

\* clearInterval(handle)
ClearInterval(ts, handle) == {t \in ts : t.id # handle}

\* if (pollingIntervalRef.current) clearInterval(pollingIntervalRef.current)
ClearExistingSkipped(ts, ref) == ts

ClearExisting(ts, ref) == IF ref # Null THEN ClearInterval(ts, ref) ELSE ts

\* stopPolling: the timers left scheduled
StopTimersKeepsInterval(ts, ref) == ts

StopTimers(ts, ref) == IF ref # Null THEN ClearInterval(ts, ref) ELSE ts

\* the record of the last operation: its name, the notification requests it
\* issued, whether it inserted an alert, and for a settled poll cycle the
\* address fetched from, the response and whether the body repeats the body
\* of the operation before
Op(name, ip, resp, created, repeat, notes) ==
    [op |-> name, ip |-> ip, data |-> resp.data, created |-> created,
     repeat |-> repeat, notified |-> notes]

NoResp == [kind |-> "", data |-> NoData]

Did(name) == Op(name, EmptyIp, NoResp, FALSE, FALSE, <<>>)

\* startPolling of the render whose esp32IpAddress is ip and lastAlertHash hash
StartPolling(ip, hash) ==
    LET kept == ClearExisting(timers, pollingIntervalRef)
        handle == FreshTimerId(timers)
    IN  /\ BagCardinality(PollIssue(inflight, ip, hash)) <= MaxInFlight
        /\ isPolling' = TRUE
        /\ inflight' = PollIssue(inflight, ip, hash)
        /\ timers' = kept \cup {[id |-> handle, ip |-> ip, hash |-> hash]}
        /\ pollingIntervalRef' = handle

\* stopPolling
StopPolling ==
    /\ timers' = StopTimers(timers, pollingIntervalRef)
    /\ pollingIntervalRef' = Null
    /\ isPolling' = FALSE

----------------------------------------------------------------------------
\* generateTestFireAlert

\* one of testLocations with its random variation applied
TestPositions ==
    { [name |-> "Bacolod City", lat |-> 16654200, lng |-> 120345600] }

TestSeverities == {"low"}

TestAlert(location, severity, clock) ==
    [id |-> clock,
     severity |-> severity,
     location |-> <<location.name, "(SIM)">>,
     coordinates |-> [lat |-> location.lat, lng |-> location.lng],
     time |-> CurrentDate(clock),
     status |-> "active"]

----------------------------------------------------------------------------
\* The producer (esp32_smartfire.ino)

\* analogRead of the 12-bit converter
MaxReading == 4095

EXTREME_THRESHOLD == 500
HIGH_THRESHOLD == 1000
MODERATE_THRESHOLD == 2000
LOW_THRESHOLD == 3000

ClassifySeverityInclusive(sensorValue) ==
    IF sensorValue <= EXTREME_THRESHOLD THEN "EXTREME"
    ELSE IF sensorValue <= HIGH_THRESHOLD THEN "HIGH"
    ELSE IF sensorValue <= MODERATE_THRESHOLD THEN "MODERATE"
    ELSE IF sensorValue <= LOW_THRESHOLD THEN "LOW"
    ELSE "NONE"

ClassifySeverity(sensorValue) ==
    IF sensorValue < EXTREME_THRESHOLD THEN "EXTREME"
    ELSE IF sensorValue < HIGH_THRESHOLD THEN "HIGH"
    ELSE IF sensorValue < MODERATE_THRESHOLD THEN "MODERATE"
    ELSE IF sensorValue < LOW_THRESHOLD THEN "LOW"
    ELSE "NONE"

\* gps.location.age() below which a fix counts, in milliseconds
GpsMaxAge == 2000

\* gps.location.isValid() && gps.location.age() < 2000
IsGPSValidInclusive(fix) == fix.valid /\ fix.age <= GpsMaxAge

IsGPSValid(fix) == fix.valid /\ fix.age < GpsMaxAge

\* String(degrees, 6): degrees, held in units of 0.0000001, printed with six
\* decimal places, that is rounded to micro-degrees
Format6(x) == IF x < 0 THEN 0 - ((5 - x) \div 10) ELSE (x + 5) \div 10

\* getTimestamp: "2026-01-22 HH:MM" from the milliseconds since boot
GetTimestamp(currentMillis) ==
    LET seconds == currentMillis \div 1000
        minutes == seconds \div 60
        hours == minutes \div 60
    IN  <<2026, 1, 22, hours % 24, minutes % 60>>

\* what the hardware holds when a request arrives: the fix of TinyGPS++ (its
\* validity flag, its age in milliseconds, its position in units of
\* 0.0000001 degree) and the milliseconds since boot
GpsFixes ==
    [valid : BOOLEAN, age : {0, GpsMaxAge - 1, GpsMaxAge, GpsMaxAge + 1},
     lat : {167000006}, lng : {1204000004}]

Uptimes == {0, 90061000}

\* the JSON document handleFireAlert sends
FireAlertJson(sensorValue, fix, currentMillis) ==
    [severity |-> ClassifySeverity(sensorValue),
     time |-> GetTimestamp(currentMillis),
     latitude |-> IF IsGPSValid(fix) THEN Format6(fix.lat) ELSE FallbackLat,
     longitude |-> IF IsGPSValid(fix) THEN Format6(fix.lng) ELSE FallbackLng,
     numeric |-> TRUE]

\* the producer after setup(), before any request
Booted ==
    [sensorValue |-> MaxReading,
     fix |-> [valid |-> FALSE, age |-> 0, lat |-> 0, lng |-> 0],
     millis |-> 0, response |-> NoData]

\* GET /fire-alert: handleFireAlert with the hardware as the request finds it
HandleFireAlert ==
    /\ producer.response = NoData
    /\ producer' = [producer EXCEPT !.response =
                       FireAlertJson(producer.sensorValue, producer.fix,
                                     producer.millis)]
    /\ UNCHANGED <<alerts, esp32IpAddress, isPolling, lastAlertHash,
                   pollingIntervalRef, timers, inflight, saves, now, pc,
                   escaped, lastOp>>

----------------------------------------------------------------------------
\* State machine

Init ==
    /\ alerts = <<>>
    /\ esp32IpAddress = DefaultIp
    /\ isPolling = FALSE
    /\ lastAlertHash = EmptyHash
    /\ pollingIntervalRef = Null
    /\ timers = {}
    /\ inflight = EmptyBag
    /\ saves = 0
    /\ now = 0
    /\ pc = "effect"
    /\ escaped = FALSE
    /\ lastOp = Did("mount")
    /\ producer = Booted

\* setEsp32IpAddress(ip): a changed value re-renders and schedules the
\* [esp32IpAddress] effect, its cleanup first
SetEsp32IpAddress(ip) ==
    IF ip # esp32IpAddress
    THEN esp32IpAddress' = ip /\ pc' = "cleanup"
    ELSE UNCHANGED <<esp32IpAddress, pc>>

\* the cleanup the effect returned: stopPolling of the previous render
EffectCleanup ==
    /\ pc = "cleanup"
    /\ StopPolling
    /\ pc' = "effect"
    /\ lastOp' = Did("stopPolling")
    /\ UNCHANGED <<producer, alerts, esp32IpAddress, lastAlertHash, inflight,
                   saves, now, escaped>>

\* the effect body: startPolling of this render, if there is an address
EffectRun ==
    /\ pc = "effect"
    /\ IF esp32IpAddress # EmptyIp /\ PlatformOS # "web"
       THEN /\ StartPolling(esp32IpAddress, lastAlertHash)
            /\ lastOp' = Did("startPolling")
       ELSE /\ UNCHANGED <<isPolling, inflight, timers, pollingIntervalRef>>
            /\ lastOp' = Did("noPolling")
    /\ pc' = "idle"
    /\ UNCHANGED <<producer, alerts, esp32IpAddress, lastAlertHash, saves, now, escaped>>

\* the interval timer t fires: pollESP32Endpoint of the closure it holds
Tick(t) ==
    /\ pc = "idle"
    /\ BagCardinality(inflight) < MaxInFlight
    /\ inflight' = PollIssue(inflight, t.ip, t.hash)
    /\ UNCHANGED <<producer, alerts, esp32IpAddress, isPolling, lastAlertHash,
                   pollingIntervalRef, timers, saves, now, pc, escaped,
                   lastOp>>

\* the fetch of the cycle f in flight settles with resp and the cycle runs to
\* its end
Receive(f, resp) ==
    LET out == PollProcess(f, resp, alerts, lastAlertHash, now)
    IN  /\ pc = "idle"
        /\ Len(out.alerts) <= MaxAlerts
        /\ alerts' = out.alerts
        /\ lastAlertHash' = out.hash
        /\ inflight' = inflight (-) SetToBag({f})
        /\ escaped' = (escaped \/ EscapesPoll(out.thrown))
        /\ lastOp' = Op(IF resp.kind = "ok" THEN "response" ELSE "failed",
                        f.ip, resp, out.created,
                        resp.kind = "ok" /\ lastOp.op = "response"
                            /\ lastOp.data = resp.data,
                        out.notes)
        /\ UNCHANGED <<producer, esp32IpAddress, isPolling, pollingIntervalRef, timers,
                       saves, now, pc>>

\* the updater of generateTestFireAlert, had it tested the store as the
\* updater of the poll does
TestUpdaterChecksProximity(prevAlerts, newAlert) ==
    IF Exists(prevAlerts, newAlert) THEN prevAlerts
    ELSE <<newAlert>> \o prevAlerts

\* setAlerts(prev => [newAlert, ...prev])
TestUpdater(prevAlerts, newAlert) == <<newAlert>> \o prevAlerts

\* 'Generate Single Alert', or the simulation timer
GenerateTestFireAlert(location, severity) ==
    LET newAlert == TestAlert(location, severity, now)
    IN  /\ pc = "idle"
        /\ Len(alerts) < MaxAlerts
        /\ alerts' = TestUpdater(alerts, newAlert)
        /\ lastOp' = Op("generate", EmptyIp, NoResp, TRUE, FALSE,
                        <<NotificationRequest(newAlert)>>)
        /\ UNCHANGED <<producer, esp32IpAddress, isPolling, lastAlertHash,
                       pollingIntervalRef, timers, inflight, saves, now,
                       pc, escaped>>

\* 'Clear Alert History', confirmed with 'Clear All'
ClearHistory ==
    /\ pc = "idle"
    /\ alerts' = <<>>
    /\ lastOp' = Did("clear")
    /\ UNCHANGED <<producer, esp32IpAddress, isPolling, lastAlertHash,
                   pollingIntervalRef, timers, inflight, saves, now, pc, escaped>>

\* saveESP32IP(ip): stored is whether AsyncStorage.setItem resolved
SaveESP32IP(ip, stored) ==
    /\ pc = "idle"
    /\ BagCardinality(inflight) < MaxInFlight
    /\ saves < MaxSaves
    /\ saves' = saves + 1
    /\ IF stored
       THEN /\ SetEsp32IpAddress(ip)
            /\ lastOp' = Did("saveIp")
       ELSE /\ UNCHANGED <<esp32IpAddress, pc>>
            /\ lastOp' = Did("saveIpFailed")
    /\ UNCHANGED <<producer, alerts, isPolling, lastAlertHash, pollingIntervalRef,
                   timers, inflight, now, escaped>>

\* loadESP32IP settles, once, after the mount effects: savedIP is what
\* AsyncStorage.getItem resolved to (EmptyIp for null or a rejection)
LoadESP32IP(savedIP) ==
    /\ pc = "idle"
    /\ saves = 0
    /\ BagCardinality(inflight) < MaxInFlight
    /\ saves' = saves + 1
    /\ IF savedIP # EmptyIp
       THEN SetEsp32IpAddress(savedIP)
       ELSE UNCHANGED <<esp32IpAddress, pc>>
    /\ lastOp' = Did("loadIp")
    /\ UNCHANGED <<producer, alerts, isPolling, lastAlertHash, pollingIntervalRef,
                   timers, inflight, now, escaped>>

\* what triggerFireAlertNotification hands to scheduleNotificationAsync once
\* more after the promise of a request settled: nothing, the promise that
\* triggerFireAlertNotification returns is dropped by its callers
RetryRejected(requests, delivered) == IF delivered THEN <<>> ELSE requests

Retry(requests, delivered) == <<>>

\* the promise of scheduleNotificationAsync settles for the requests of the
\* last operation: delivered tells whether it resolved
NotificationSettles(delivered) ==
    /\ pc = "idle"
    /\ lastOp.op \in {"response", "generate"}
    /\ lastOp.notified # <<>>
    /\ lastOp' = [lastOp EXCEPT
                    !.op = IF delivered THEN "notified" ELSE "notificationFailed",
                    !.repeat = FALSE,
                    !.notified = Retry(lastOp.notified, delivered)]
    /\ UNCHANGED <<producer, alerts, esp32IpAddress, isPolling, lastAlertHash,
                   pollingIntervalRef, timers, inflight, saves, now, pc,
                   escaped>>

\* time passes
AdvanceClock ==
    /\ pc = "idle"
    /\ now < MaxClock
    /\ now' = now + 1
    /\ UNCHANGED <<producer, alerts, esp32IpAddress, isPolling, lastAlertHash,
                   pollingIntervalRef, timers, inflight, saves, pc, escaped, lastOp>>

\* one poll interval passes: no fetch outlives its abort signal, and at the
\* end of the interval the interval timers fire
Elapse ==
    /\ pc = "idle"
    /\ \A f \in BagToSet(inflight) : ~Expired(f, PollIntervalMs)
    /\ inflight' = FireAll(Aged(inflight, PollIntervalMs), timers)
    /\ UNCHANGED <<producer, alerts, esp32IpAddress, isPolling, lastAlertHash,
                   pollingIntervalRef, timers, saves, now, pc, escaped,
                   lastOp>>

Next ==
    \/ EffectCleanup
    \/ EffectRun
    \/ \E t \in timers : Tick(t)
    \/ \E f \in BagToSet(inflight), resp \in Responses : Receive(f, resp)
    \/ ClearHistory
    \/ \E ip \in InputIps, stored \in BOOLEAN : SaveESP32IP(ip, stored)
    \/ \E savedIP \in {EmptyIp, OtherIp} : LoadESP32IP(savedIP)
    \/ AdvanceClock

\* the consumer driven by the poller, the address settings and the history
\* button
Spec == Init /\ [][Next]_vars

\* the same with the fire detection simulator
NextManual ==
    \/ Next
    \/ \E location \in TestPositions, severity \in TestSeverities :
          GenerateTestFireAlert(location, severity)

SpecManual == Init /\ [][NextManual]_vars

\* startPolling and stopPolling called in any order, next to the effect
CallStartPolling ==
    /\ pc = "idle"
    /\ StartPolling(esp32IpAddress, lastAlertHash)
    /\ lastOp' = Did("startPolling")
    /\ UNCHANGED <<producer, alerts, esp32IpAddress, lastAlertHash, saves, now, pc,
                   escaped>>

\* lastOp.repeat: no schedule existed when it was called
CallStopPolling ==
    /\ pc = "idle"
    /\ StopPolling
    /\ lastOp' = Op("stopPolling", EmptyIp, NoResp, FALSE,
                    pollingIntervalRef = Null, <<>>)
    /\ UNCHANGED <<producer, alerts, esp32IpAddress, lastAlertHash, inflight, saves,
                   now, pc, escaped>>

\* for the schedule, a fetch that times out and one fire reading suffice
PollerResponses ==
    { [kind |-> "timeout", data |-> NoData],
      [kind |-> "ok", data |-> Body("HIGH", Time1, BasePosition)] }

NextPoller ==
    \/ EffectCleanup
    \/ EffectRun
    \/ \E t \in timers : Tick(t)
    \/ \E f \in BagToSet(inflight), resp \in PollerResponses : Receive(f, resp)
    \/ \E ip \in InputIps, stored \in BOOLEAN : SaveESP32IP(ip, stored)
    \/ \E savedIP \in {EmptyIp, OtherIp} : LoadESP32IP(savedIP)
    \/ CallStartPolling
    \/ CallStopPolling

SpecPoller == Init /\ [][NextPoller]_vars

\* the consumer polling a producer whose time strings may be defective
TimestampResponses ==
    [kind : {"ok"},
     data : {Body("HIGH", t, BasePosition) :
                t \in {Time1, TimeOutOfRange, TimeNotNumeric, TimeNoTimePart}}]

NextTimestamp ==
    \/ EffectRun
    \/ \E t \in timers : Tick(t)
    \/ \E f \in BagToSet(inflight), resp \in TimestampResponses : Receive(f, resp)
    \/ ClearHistory
    \/ AdvanceClock

SpecTimestamp == Init /\ [][NextTimestamp]_vars

\* the consumer polling a producer that reports every severity, and two
\* strings that are no severity
SeverityResponses ==
    [kind : {"ok"},
     data : {Body(severity, Time1, BasePosition) :
                severity \in {"LOW", "MODERATE", "HIGH", "EXTREME", "CRITICAL",
                              "CONSTRUCTOR"}}]

NextSeverity ==
    \/ EffectRun
    \/ \E t \in timers : Tick(t)
    \/ \E f \in BagToSet(inflight), resp \in SeverityResponses : Receive(f, resp)
    \/ ClearHistory
    \/ AdvanceClock

SpecSeverity == Init /\ [][NextSeverity]_vars

\* the producer answering one request, for every sensor reading, fix and
\* uptime
InitProducer ==
    /\ alerts = <<>>
    /\ esp32IpAddress = DefaultIp
    /\ isPolling = FALSE
    /\ lastAlertHash = EmptyHash
    /\ pollingIntervalRef = Null
    /\ timers = {}
    /\ inflight = EmptyBag
    /\ saves = 0
    /\ now = 0
    /\ pc = "effect"
    /\ escaped = FALSE
    /\ lastOp = Did("mount")
    /\ producer \in [sensorValue : 0..MaxReading, fix : GpsFixes,
                     millis : Uptimes, response : {NoData}]

NextProducer == HandleFireAlert

SpecProducer == InitProducer /\ [][NextProducer]_vars

\* the writers of the store: the poller at one address, the fire detection
\* simulator and the history button
NextStore ==
    \/ EffectRun
    \/ \E t \in timers : Tick(t)
    \/ \E f \in BagToSet(inflight), resp \in Responses : Receive(f, resp)
    \/ \E location \in TestPositions, severity \in TestSeverities :
          GenerateTestFireAlert(location, severity)
    \/ ClearHistory
    \/ AdvanceClock

SpecStore == Init /\ [][NextStore]_vars

\* the poller in real time: the interval timer fires every 1000 ms and a
\* fetch settles, with a response or a failure, before its 2000 ms are over
NextTimed ==
    \/ EffectRun
    \/ Elapse
    \/ \E f \in BagToSet(inflight), resp \in Responses : Receive(f, resp)
    \/ ClearHistory

SpecTimed == Init /\ [][NextTimed]_vars

\* the poller with a notification facility that may reject a request
NextNotify ==
    \/ EffectRun
    \/ \E t \in timers : Tick(t)
    \/ \E f \in BagToSet(inflight), resp \in Responses : Receive(f, resp)
    \/ \E delivered \in BOOLEAN : NotificationSettles(delivered)
    \/ ClearHistory

SpecNotify == Init /\ [][NextNotify]_vars

\* the poller with a producer that may also answer with a body that lacks its
\* coordinates
NextMalformed ==
    \/ EffectRun
    \/ \E t \in timers : Tick(t)
    \/ \E f \in BagToSet(inflight), resp \in ResponsesMalformed : Receive(f, resp)
    \/ ClearHistory

SpecMalformed == Init /\ [][NextMalformed]_vars

----------------------------------------------------------------------------
\* Vocabulary of the claims

\* this step is a poll cycle running to its end (no other step takes a cycle
\* out of flight)
Settles == BagCardinality(inflight') < BagCardinality(inflight)

\* the cycle that this step ran to its end is f
SettledCycle(f) == inflight' = inflight (-) SetToBag({f})

\* a poll cycle ran to its end on a response that parsed
Delivers == Settles /\ lastOp'.op = "response"

\* a body that reports a flame
ReportsFire(d) == d.severity \in {"LOW", "MODERATE", "HIGH", "EXTREME"}

Distance(a, b) == IF a < b THEN b - a ELSE a - b

\* some ACTIVE alert of the store lies within tolerance of the body in both axes
ContinuesActive(store, d) ==
    \E i \in 1..Len(store) :
        /\ store[i].status = "active"
        /\ Distance(store[i].coordinates.lat, d.latitude) < ProximityTolerance
        /\ Distance(store[i].coordinates.lng, d.longitude) < ProximityTolerance

\* every ACTIVE alert of the store is beyond tolerance of the body in an axis
ApartFromActive(store, d) ==
    \A i \in 1..Len(store) :
        store[i].status = "active" =>
            \/ Distance(store[i].coordinates.lat, d.latitude) > ProximityTolerance
            \/ Distance(store[i].coordinates.lng, d.longitude) > ProximityTolerance

\* the alerts of the store at exactly the position of the body
CreatedFrom(store, d) ==
    {i \in 1..Len(store) :
        /\ store[i].coordinates.lat = d.latitude
        /\ store[i].coordinates.lng = d.longitude}

\* the alert a is the ACTIVE alert made from the body
MadeFrom(a, d) ==
    /\ a.status = "active"
    /\ a.coordinates.lat = d.latitude
    /\ a.coordinates.lng = d.longitude

\* this step dispatched no notification
Silent == lastOp'.notified = <<>>

\* this step delivered the fire body that the operation before delivered
DeliversAgain == Delivers /\ lastOp'.repeat /\ ReportsFire(lastOp'.data)

----------------------------------------------------------------------------
\* C1: of two consecutive successful poll ticks that deliver the identical
\* fire snapshot, the second inserts nothing and dispatches nothing, so that
\* the store holds one alert made from the snapshot, ACTIVE, and not two.
C1_IdenticalSnapshotOnce ==
    [][DeliversAgain =>
        /\ alerts' = alerts
        /\ Silent
        /\ Cardinality(CreatedFrom(alerts', lastOp'.data)) <= 1
        /\ lastOp.created =>
              /\ alerts' # <<>>
              /\ MadeFrom(Head(alerts'), lastOp'.data)]_vars

\* C2: a poll tick whose fire snapshot lies within 0.0001 degrees, in latitude
\* and in longitude, of an ACTIVE alert of the store creates no alert and
\* dispatches nothing, whatever the two severities.
C2_ProximityMerge ==
    [][(Delivers /\ ReportsFire(lastOp'.data)
            /\ ContinuesActive(alerts, lastOp'.data)) =>
        (alerts' = alerts /\ ~lastOp'.created /\ Silent)]_vars

\* an EXTREME snapshot arrived next to a HIGH alert, at other coordinates, and
\* the store still holds that alert alone
C2_Witness ==
    /\ lastOp.op = "response"
    /\ lastOp.data.severity = "EXTREME"
    /\ ~lastOp.created
    /\ Len(alerts) = 1
    /\ alerts[1].severity = "high"
    /\ alerts[1].status = "active"
    /\ alerts[1].coordinates.lat # lastOp.data.latitude
    /\ ContinuesActive(alerts, lastOp.data)

C4_NoneChangesNothing ==
    [][(Delivers /\ lastOp'.data.severity = "NONE") =>
        /\ alerts' = alerts
        /\ lastAlertHash' = lastAlertHash
        /\ ~lastOp'.created
        /\ Silent]_vars

\* a NONE snapshot was processed while the store held an alert and a
\* fingerprint was stored
C4_Witness ==
    /\ lastOp.op = "response"
    /\ lastOp.data.severity = "NONE"
    /\ alerts # <<>>
    /\ lastAlertHash # EmptyHash

\* C5: a tick that delivers a fire snapshot whose fingerprint equals the
\* stored fingerprint of the fire snapshot processed before it inserts
\* nothing and dispatches nothing, in every state of the store.
C5_SameFingerprintIsNoOp ==
    [][(Delivers /\ ReportsFire(lastOp'.data)
            /\ Fingerprint(lastOp'.data) = lastAlertHash) =>
        (alerts' = alerts /\ Silent)]_vars

\* C6: a poll tick whose fetch fails leaves the store and the stored
\* fingerprint unchanged, dispatches nothing, lets no exception leave
\* pollESP32Endpoint and keeps the interval timer scheduled.
C6_FailedTickChangesNothing ==
    [][(Settles /\ lastOp'.op = "failed") =>
        /\ alerts' = alerts
        /\ lastAlertHash' = lastAlertHash
        /\ Silent
        /\ ~escaped'
        /\ timers' = timers
        /\ pollingIntervalRef' = pollingIntervalRef]_vars

\* a fetch failed while alerts were in the store, and the timer is scheduled
C6_Witness ==
    /\ lastOp.op = "failed"
    /\ alerts # <<>>
    /\ ~escaped
    /\ timers # {}
    /\ pollingIntervalRef \in TimerIds(timers)

\* C7: at most one poll cycle is in progress at any time.
C7_OneCycleAtATime == BagCardinality(inflight) <= 1

\* C8: an alert is inserted only from a response of the address that is the
\* producer address when the response is processed.
C8_NoOldTargetProcessed ==
    (lastOp.op = "response" /\ lastOp.created) => lastOp.ip = esp32IpAddress

\* C9: while the poller is stopped (after stopPolling, before the next
\* startPolling) no snapshot is processed into the store, not even the one of
\* a fetch that was in flight when stopPolling ran.
C9_NothingProcessedAfterStop ==
    (pollingIntervalRef = Null /\ pc = "idle") =>
        ~(lastOp.op = "response" /\ lastOp.created)

\* C10: at most one poll interval timer is scheduled, the one whose handle
\* pollingIntervalRef holds; startPolling cancels the schedule it finds.
C10_AtMostOneTimer ==
    /\ Cardinality(timers) <= 1
    /\ TimerIds(timers) = IF pollingIntervalRef = Null THEN {}
                          ELSE {pollingIntervalRef}

\* startPolling ran while a timer was scheduled (its handle is the second
\* one), and one timer is scheduled
C10_Witness ==
    /\ lastOp.op = "startPolling"
    /\ pollingIntervalRef = 2
    /\ Cardinality(timers) = 1

\* this step is generateTestFireAlert inserting its alert
Generates == lastOp'.op = "generate" /\ alerts' # alerts

\* C11: generateTestFireAlert invoked while a poll cycle is in flight does
\* not insert before the cycle has run to its end: no insertion by it takes
\* effect while a fetch is awaiting its response.
C11_GenerateQueuedBehindTick ==
    [][Generates => inflight = EmptyBag]_vars

\* C12: poll processing issues one notification request for each alert it
\* inserts, carrying that alert's id, and none for a snapshot that continues
\* an ACTIVE alert, for a NONE snapshot or for a failed tick.
C12_OneRequestPerCreatedAlert ==
    [][Settles =>
        /\ Len(lastOp'.notified) = Len(alerts') - Len(alerts)
        /\ Len(lastOp'.notified) = (IF lastOp'.created THEN 1 ELSE 0)
        /\ lastOp'.created =>
              lastOp'.notified[1].data.alertId = Head(alerts').id
        /\ (\/ lastOp'.op = "failed"
            \/ ~ReportsFire(lastOp'.data)
            \/ ContinuesActive(alerts, lastOp'.data)) => Silent]_vars

\* poll processing inserted a second alert and issued its one request
C12_Witness ==
    /\ lastOp.op = "response"
    /\ lastOp.created
    /\ Len(lastOp.notified) = 1
    /\ Len(alerts) = 2
    /\ lastAlertHash = Fingerprint(lastOp.data)

\* C13: the alerts of the store have pairwise distinct ids.
C13_DistinctIds ==
    \A i, j \in 1..Len(alerts) : i # j => alerts[i].id # alerts[j].id

\* the store `old` is the tail end of the store `new`: every alert of old is
\* in new, unchanged and in the same order, behind the alerts inserted since
Retains(new, old) ==
    /\ Len(new) >= Len(old)
    /\ SubSeq(new, Len(new) - Len(old) + 1, Len(new)) = old

\* C14, as stated: an alert once inserted is in the store in every later
\* state; no operation of the consumer removes alerts.
C14_NeverRemoved ==
    [][Retains(alerts', alerts)]_vars

\* C14, amended: an alert once inserted stays in the store, unchanged, until
\* 'Clear Alert History' is confirmed, which empties the store; no other
\* operation removes alerts.
C14_RemovedOnlyByClearHistory ==
    [][/\ ClearHistory => alerts' = <<>>
       /\ ~ClearHistory => Retains(alerts', alerts)]_vars

\* two alerts are still in the store after the producer address was changed
\* and a later tick was processed
C14_Witness ==
    /\ Len(alerts) = 2
    /\ esp32IpAddress # DefaultIp
    /\ lastOp.op = "response"
    /\ ~lastOp.created

\* the time string is a wall-clock time "YYYY-MM-DD HH:MM"
ValidWallClock(timestamp) ==
    /\ Len(timestamp) = 5
    /\ NaN \notin {timestamp[i] : i \in 1..Len(timestamp)}
    /\ timestamp[2] \in 1..12
    /\ timestamp[3] \in 1..DaysInMonth(timestamp[1], (timestamp[2] + 11) % 12)
    /\ timestamp[4] \in 0..23
    /\ timestamp[5] \in 0..59

\* C15: an alert created from a snapshot whose time is not a valid
\* "YYYY-MM-DD HH:MM" wall-clock time (fields out of range, a field that is
\* not a number, no time part) has the current time as its time.
C15_DefectiveTimeGivesCurrentTime ==
    [][(Delivers /\ lastOp'.created /\ ~ValidWallClock(lastOp'.data.time)) =>
            Head(alerts').time = CurrentDate(now)]_vars

Severities == {"low", "moderate", "high", "extreme"}

\* the priority of the profile of a severity
ProfilePriority(severity) ==
    CASE severity = "low"      -> "DEFAULT"
      [] severity = "moderate" -> "HIGH"
      [] severity = "high"     -> "HIGH"
      [] severity = "extreme"  -> "MAX"

\* the request has title, body and sound of the profile
CarriesProfile(request, profile) ==
    /\ {"title", "body", "sound"} \subseteq DOMAIN request
    /\ request.title = profile.title
    /\ request.body = profile.body
    /\ request.sound = profile.sound

\* the alert the last operation inserted
Inserted == Head(alerts)

\* C16: the notification request issued for a new alert of severity low,
\* moderate, high or extreme carries the title, the body and the priority of
\* that severity's profile: DEFAULT, HIGH, HIGH, MAX.
C16_RequestCarriesPriority ==
    (lastOp.created /\ Inserted.severity \in Severities) =>
        \A i \in 1..Len(lastOp.notified) :
            /\ CarriesProfile(lastOp.notified[i], SeverityConfig(Inserted))
            /\ "priority" \in DOMAIN lastOp.notified[i]
            /\ lastOp.notified[i].priority = ProfilePriority(Inserted.severity)

\* C17: for a new alert whose severity is none of low, moderate, high and
\* extreme, a notification request is issued and carries the title and the
\* body of the low profile.
C17_UnknownSeverityGetsLowProfile ==
    (lastOp.created /\ Inserted.severity \notin Severities) =>
        /\ Len(lastOp.notified) = 1
        /\ CarriesProfile(lastOp.notified[1],
                          SeverityConfig([Inserted EXCEPT !.severity = "low"]))

\* the producer has answered the request
Answered == producer.response # NoData

\* the urgency of a severity of the wire format
Rank(severity) ==
    CASE severity = "EXTREME"  -> 4
      [] severity = "HIGH"     -> 3
      [] severity = "MODERATE" -> 2
      [] severity = "LOW"      -> 1
      [] severity = "NONE"     -> 0

C19_FixOrFallback ==
    Answered =>
        LET fix == producer.fix
            response == producer.response
        IN  /\ response.numeric
            /\ (fix.valid /\ fix.age < 2000) =>
                  /\ response.latitude = Format6(fix.lat)
                  /\ response.longitude = Format6(fix.lng)
            /\ ~(fix.valid /\ fix.age < 2000) =>
                  /\ response.latitude = 16615000
                  /\ response.longitude = 120316000

\* a fix flagged valid and exactly 2000 ms old was answered with the
\* fallback coordinates
C19_Witness ==
    /\ Answered
    /\ producer.fix.valid
    /\ producer.fix.age = 2000
    /\ producer.response.latitude = 16615000
    /\ producer.response.longitude = 120316000

\* the local wall-clock time, with zero seconds, that a valid time string
\* denotes
WallClock(timestamp) ==
    [year |-> timestamp[1], monthIndex |-> timestamp[2] - 1,
     day |-> timestamp[3], hours |-> timestamp[4], minutes |-> timestamp[5],
     seconds |-> 0]

\* a severity of the wire format in lower case
LowerCased(severity) ==
    CASE severity = "LOW"         -> "low"
      [] severity = "MODERATE"    -> "moderate"
      [] severity = "HIGH"        -> "high"
      [] severity = "EXTREME"     -> "extreme"
      [] severity = "CRITICAL"    -> "critical"
      [] severity = "CONSTRUCTOR" -> "constructor"

\* C20: an alert created by a poll tick from a fire snapshot is ACTIVE, has
\* the lower-cased wire severity, the latitude and longitude of the snapshot
\* as its coordinates, and the parsed snapshot time as its time.
C20_CreatedAlertFields ==
    (lastOp.op = "response" /\ lastOp.created) =>
        /\ Inserted.status = "active"
        /\ Inserted.severity = LowerCased(lastOp.data.severity)
        /\ Inserted.coordinates = [lat |-> lastOp.data.latitude,
                                   lng |-> lastOp.data.longitude]
        /\ ValidWallClock(lastOp.data.time) =>
              Inserted.time = WallClock(lastOp.data.time)

\* a MODERATE snapshot of 2026-01-22 21:35 made a moderate alert of January
C20_Witness ==
    /\ lastOp.op = "response"
    /\ lastOp.created
    /\ lastOp.data.severity = "MODERATE"
    /\ Inserted.severity = "moderate"
    /\ Inserted.time.monthIndex = 0
    /\ Inserted.time.hours = 21

\* the index after this step of the alert that is at index i before it, the
\* new alerts being inserted at the head
Kept(i) == Len(alerts') - Len(alerts) + i

\* C21: every newly inserted alert, of a poll tick or of the simulator, is
\* placed at index 0, and the alerts already in the store keep their order
\* behind it.
C21_InsertedAtHead ==
    [][Len(alerts') > Len(alerts) =>
        /\ Len(alerts') = Len(alerts) + 1
        /\ Tail(alerts') = alerts
        /\ lastOp'.created
        /\ lastOp'.notified # <<>>
        /\ Head(alerts').id = lastOp'.notified[1].data.alertId]_vars

\* a simulated alert was inserted in front of an alert of the poller
C21_Witness ==
    /\ lastOp.op = "generate"
    /\ Len(alerts) = 2
    /\ alerts[1].location[2] = "(SIM)"
    /\ alerts[2].location[1] = "GPS"

\* C22: the id, severity, coordinates, location label and time of an alert in
\* the store never change; a snapshot that continues an ACTIVE alert with
\* another severity leaves the store as it is.
C22_AlertFieldsFrozen ==
    [][/\ \A i \in 1..Len(alerts) :
            Kept(i) \in 1..Len(alerts') =>
                /\ alerts'[Kept(i)].id = alerts[i].id
                /\ alerts'[Kept(i)].severity = alerts[i].severity
                /\ alerts'[Kept(i)].coordinates = alerts[i].coordinates
                /\ alerts'[Kept(i)].location = alerts[i].location
                /\ alerts'[Kept(i)].time = alerts[i].time
       /\ (Delivers /\ ContinuesActive(alerts, lastOp'.data)) =>
                alerts' = alerts]_vars

\* an EXTREME snapshot continued an alert of severity high, which is still
\* of severity high
C22_Witness ==
    /\ lastOp.op = "response"
    /\ ~lastOp.created
    /\ lastOp.data.severity = "EXTREME"
    /\ alerts # <<>>
    /\ Inserted.severity = "high"
    /\ ContinuesActive(<<Inserted>>, lastOp.data)

\* C23: no alert goes from RESOLVED to ACTIVE: no step changes the status of
\* an alert of the store.
C23_StatusNeverReturnsToActive ==
    [][\A i \in 1..Len(alerts) :
            Kept(i) \in 1..Len(alerts') =>
                /\ alerts[i].status = "resolved" =>
                      alerts'[Kept(i)].status = "resolved"
                /\ alerts'[Kept(i)].status = alerts[i].status]_vars

\* a snapshot continued an ACTIVE alert after another alert was inserted in
\* front of it
C23_Witness ==
    /\ lastOp.op = "response"
    /\ ~lastOp.created
    /\ Len(alerts) = 2
    /\ ContinuesActive(<<alerts[2]>>, lastOp.data)
    /\ alerts[2].status = "active"

\* C30: every alert of the store is ACTIVE: no operation sets a status to
\* RESOLVED.
C30_AllActive ==
    \A i \in 1..Len(alerts) : alerts[i].status = "active"

\* the store holds an alert of the poller and one of the simulator after a
\* NONE snapshot was processed
C30_Witness ==
    /\ lastOp.op = "response"
    /\ lastOp.data.severity = "NONE"
    /\ Len(alerts) = 2
    /\ \E i, j \in 1..2 : /\ alerts[i].location[1] = "GPS"
                          /\ alerts[j].location[2] = "(SIM)"

\* C24: every fetch settles within 2000 ms of being issued, the interval
\* timer issues a fetch at the end of every 1000 ms meanwhile, and at most
\* three poll cycles are in flight at any instant, however many ticks failed.
C24_FetchesTimeBounded ==
    [][/\ \A f \in BagToSet(inflight') : f.age <= 2000
       /\ BagCardinality(inflight') <= 3
       /\ Elapse =>
            \A t \in timers : CopiesIn(Fetch(t.ip, t.hash), inflight') >= 1]_vars

\* three cycles are in flight, the oldest at its 2000 ms, the youngest just
\* issued, after a tick failed
C24_Witness ==
    /\ BagCardinality(inflight) = 3
    /\ \E f, g \in BagToSet(inflight) : f.age = 2000 /\ g.age = 0
    /\ lastOp.op = "failed"

\* C25: stopPolling leaves the timer handle null, isPolling false, no timer
\* scheduled and the store as it was; called when no schedule exists (at
\* the start, or right after a stopPolling) it changes nothing.
C25_StopPollingIdempotent ==
    [][CallStopPolling =>
        /\ pollingIntervalRef' = Null
        /\ isPolling' = FALSE
        /\ timers' = {}
        /\ alerts' = alerts
        /\ (pollingIntervalRef = Null /\ ~isPolling) =>
              UNCHANGED <<timers, inflight, lastAlertHash, esp32IpAddress>>]_vars

\* stopPolling was called when no schedule existed, with an alert in the store
C25_Witness ==
    /\ lastOp.op = "stopPolling"
    /\ lastOp.repeat
    /\ alerts # <<>>
    /\ pollingIntervalRef = Null
    /\ ~isPolling

\* C26: when the notification facility rejects the request for a new alert,
\* no request is issued again, no exception leaves the poll cycle, and the
\* alert is in the store, at its head, where its tick inserted it.
C26_RejectedRequestDropped ==
    [][NotificationSettles(FALSE) =>
        /\ lastOp'.notified = <<>>
        /\ ~escaped'
        /\ alerts' = alerts
        /\ alerts' # <<>>
        /\ Head(alerts').id = lastOp.notified[1].data.alertId
        /\ MadeFrom(Head(alerts'), lastOp.data)]_vars

\* the request for the second alert of the store was rejected
C26_Witness ==
    /\ lastOp.op = "notificationFailed"
    /\ lastOp.created
    /\ Len(alerts) = 2
    /\ MadeFrom(Inserted, lastOp.data)

\* C27: when alerts are created by poll ticks only, with fetches in flight
\* answered in any order and with history clears, no two ACTIVE alerts of the
\* store lie within the tolerance of each other in both latitude and longitude.
C27_ActiveAlertsApart ==
    \A i, j \in 1..Len(alerts) :
        (i # j /\ alerts[i].status = "active" /\ alerts[j].status = "active") =>
            \/ Distance(alerts[i].coordinates.lat, alerts[j].coordinates.lat)
                 >= ProximityTolerance
            \/ Distance(alerts[i].coordinates.lng, alerts[j].coordinates.lng)
                 >= ProximityTolerance

\* two ACTIVE alerts in the store, the newer created by a response that was
\* answered while another fetch was in flight, then a snapshot within the
\* tolerance of one of them merged
C27_Witness ==
    /\ Len(alerts) = 2
    /\ alerts[1].status = "active"
    /\ alerts[2].status = "active"
    /\ lastOp.op = "response"
    /\ ~lastOp.created
    /\ lastOp.data.latitude # alerts[1].coordinates.lat
    /\ lastOp.data.latitude # alerts[2].coordinates.lat
    /\ ContinuesActive(alerts, lastOp.data)
    /\ BagCardinality(inflight) >= 1

\* C28: generateTestFireAlert always puts a new ACTIVE alert at the head of
\* the store and requests one notification, whatever the store and the stored
\* fingerprint hold, and leaves the stored fingerprint as it was; an ACTIVE
\* alert within the tolerance of another ACTIVE alert can result.
C28_GenerateAlwaysInserts ==
    [][(\E location \in TestPositions, severity \in TestSeverities :
            GenerateTestFireAlert(location, severity)) =>
        /\ Len(alerts') = Len(alerts) + 1
        /\ Retains(alerts', alerts)
        /\ Head(alerts').status = "active"
        /\ Len(lastOp'.notified) = 1
        /\ lastOp'.notified[1].data.alertId = Head(alerts').id
        /\ lastAlertHash' = lastAlertHash]_vars

\* a generated alert at the head of the store, within the tolerance of the
\* ACTIVE alert below it, while a fingerprint is stored
C28_Witness ==
    /\ lastOp.op = "generate"
    /\ Len(alerts) = 2
    /\ alerts[1].status = "active"
    /\ alerts[2].status = "active"
    /\ Distance(alerts[1].coordinates.lat, alerts[2].coordinates.lat)
         < ProximityTolerance
    /\ Distance(alerts[1].coordinates.lng, alerts[2].coordinates.lng)
         < ProximityTolerance
    /\ lastAlertHash # EmptyHash

\* C29: a tick whose response is valid JSON with a fire severity but without
\* numeric latitude and longitude leaves the alert store and the stored
\* fingerprint lastAlertHash as they were.
C29_MalformedTickChangesNothing ==
    [][(Delivers /\ ReportsFire(lastOp'.data) /\ ~lastOp'.data.numeric) =>
        /\ alerts' = alerts
        /\ lastAlertHash' = lastAlertHash]_vars

====
